---- MODULE Spec2Model ----
(***************************************************************************)
(* A model of the Neo4j integrations of phidata: the document vector      *)
(* store Neo4jVectorDb (phi/vectordb/neo4j/neo4j.py) and the stores that   *)
(* record timestamps (phi/memory/db/neo4j.py, phi/storage/*/neo4j.py).     *)
(*                                                                         *)
(* The Neo4j backend is modelled by the meaning of the Cypher text each    *)
(* method sends: CREATE adds a node, MERGE matches or creates, SET writes  *)
(* properties (a null value removes the property), a uniqueness constraint *)
(* rejects a second node with the same key, and a CREATE CONSTRAINT or     *)
(* CREATE INDEX without IF NOT EXISTS fails when the structure exists.     *)
(***************************************************************************)
EXTENDS Integers, Sequences, FiniteSets, Bags, TLC

VARIABLES
    cfg,         \* Neo4jVectorDb: the configuration fixed by __init__
    nodes,       \* backend: the bag of :Document nodes
    constraint,  \* backend: the uniqueness constraint on Document.id exists
    index,       \* backend: the vector index on Document.embedding exists
    res,         \* Neo4jVectorDb: the outcome of the last call
    clock,       \* backend: the value timestamp() / time.time() returns
    memories,    \* backend: the :Memory nodes, by id
    wsessions,   \* backend: the workflow session nodes, by session_id
    asessions,   \* backend: the agent :Session nodes, by session_id
    schema,      \* backend: the labels whose uniqueness constraint exists
    sres,        \* the stores: the outcome of the last call
    rpc,         \* two callers of create(): each caller's position
    rstatus,     \* two callers of create(): each caller's outcome
    wcall,       \* Neo4jWorkflowStorage.upsert: the call in progress
    scall,       \* the call whose backend sessions are followed
    handles,     \* the Neo4jWorkflowStorage objects, in order of creation
    drivers,     \* the drivers the objects hold, in order of creation
    hres         \* the objects: the outcome of the last call on one

vecVars   == <<cfg, nodes, constraint, index, res>>
storeVars == <<clock, memories, wsessions, asessions, schema, sres>>
handleVars == <<handles, drivers, hres>>
raceVars  == <<rpc, rstatus, wcall, scall, handleVars>>
vars      == <<cfg, nodes, constraint, index, res,
               clock, memories, wsessions, asessions, schema, sres,
               rpc, rstatus, wcall, scall, handles, drivers, hres>>

(***************************************************************************)
(* Bounds of the model.                                                    *)
(***************************************************************************)
MaxNodes == 2
MaxBatch == 2
MaxClock == 2

(***************************************************************************)
(* Values.  A text is a sequence of lexical units; a property that a node  *)
(* does not have reads as Null, as in Cypher.                              *)
(***************************************************************************)
Null == "null"
NoTime == -1        \* a null timestamp
NoVec == <<>>       \* a null embedding
NoText == <<>>      \* a null text
NoFilter == <<>>    \* filters = None or {}

Ids == {"a", "b"}

Contents == {<<"thai">>, <<"soup">>, <<"thai", "curry">>}

Max(x, y) == IF x >= y THEN x ELSE y
Min(x, y) == IF x <= y THEN x ELSE y

\* Document.content_hash: a digest of the content, a pure function of it.
UnitCode(u) ==
    CASE u = "thai"  -> 3
      [] u = "soup"  -> 5
      [] u = "curry" -> 7
      [] OTHER       -> 11

RECURSIVE Hash(_)
Hash(c) == IF c = <<>> THEN 17
           ELSE (Hash(SubSeq(c, 1, Len(c) - 1)) * 31 + UnitCode(c[Len(c)])) % 101

\* Embedder.embed_query / the embedding of a text: a vector of fixed length.
CountOf(c, u) == Cardinality({i \in 1..Len(c) : c[i] = u})
Embed(c) == <<CountOf(c, "thai"), Len(c) - CountOf(c, "thai")>>

\* Document.name and Document.metadata of the documents the callers write.
NameOf(c) == IF c[1] = "thai" THEN <<"n1">> ELSE <<"n2">>
TagOf(i) == IF i = "a" THEN "x" ELSE "y"

Doc(i, c, e) ==
    [id |-> i, name |-> NameOf(c), content |-> c, content_hash |-> Hash(c),
     embedding |-> IF e THEN Embed(c) ELSE NoVec,
     metadata |-> [tag |-> TagOf(i)]]

Documents == {Doc(i, c, e) : i \in Ids, c \in Contents, e \in BOOLEAN}

Batches == UNION {[1..n -> Documents] : n \in 1..MaxBatch}

\* The property k of a node; a property the node does not have is null.
HasProp(n, k) ==
    /\ k \in DOMAIN n
    /\ IF k \in {"embedding", "content", "name"} THEN n[k] # <<>>
       ELSE n[k] # Null

(***************************************************************************)
(* The backend's :Document nodes.                                          *)
(***************************************************************************)
NodeCount(b) == BagCardinality(b)
WithId(b, i) == {n \in BagToSet(b) : n.id = i}
CountId(b, i) ==
    LET S == WithId(b, i)
    IN IF S = {} THEN 0 ELSE BagCardinality([n \in S |-> b[n]])
Without(b, i) ==
    LET S == {n \in BagToSet(b) : n.id # i}
    IN [n \in S |-> b[n]]
AddNode(b, n, k) ==
    IF k = 0 THEN b ELSE b (+) [m \in {n} |-> k]

\* CREATE (d:Document {id: $id, name: $name, content: $content,
\*                     content_hash: $hash, embedding: $embedding})
CypherCreateNode(doc) ==
    [id |-> doc.id, name |-> doc.name, content |-> doc.content,
     content_hash |-> doc.content_hash, embedding |-> doc.embedding]

\* The outcome of one CREATE under the backend's uniqueness constraint.
CreateRejected(b, uniq, doc) == uniq /\ CountId(b, doc.id) > 0

\* MERGE (d:Document {id: $id}) SET d.name = ..., d.content = ...,
\*                                   d.content_hash = ..., d.embedding = ...
\* Every node the pattern matches is written; without a match one is created.
CypherMergeSet(b, doc) ==
    LET k == CountId(b, doc.id)
    IN AddNode(Without(b, doc.id), CypherCreateNode(doc), Max(k, 1))

\* insert(): one auto-commit CREATE per document, stopping at the first the
\* backend rejects.  The result is <<nodes, error>>.
RECURSIVE InsertLoop(_, _, _, _)
InsertLoop(b, uniq, docs, i) ==
    IF i > Len(docs) THEN <<b, Null>>
    ELSE IF CreateRejected(b, uniq, docs[i]) THEN <<b, "ConstraintError">>
    ELSE InsertLoop(AddNode(b, CypherCreateNode(docs[i]), 1), uniq, docs, i + 1)

\* upsert(): one auto-commit MERGE ... SET per document.
RECURSIVE UpsertLoop(_, _, _)
UpsertLoop(b, docs, i) ==
    IF i > Len(docs) THEN b
    ELSE UpsertLoop(CypherMergeSet(b, docs[i]), docs, i + 1)

NoRows == <<>>
Outcome(op, err) ==
    [op |-> op, status |-> IF err = Null THEN "ok" ELSE "error", err |-> err,
     ret |-> Null, q |-> NoText, limit |-> 0, filter |-> NoFilter,
     rows |-> NoRows, docs |-> NoRows]

(***************************************************************************)
(* Neo4jVectorDb._build_filter_conditions: the text of the WHERE           *)
(* condition.  A filter is the sequence of its <<key, value>> items; the   *)
(* value is pasted between two quote units.                                *)
(***************************************************************************)
Quote == "'"

RECURSIVE JoinAnd(_)
JoinAnd(conds) ==
    IF Len(conds) = 1 THEN conds[1]
    ELSE conds[1] \o <<"AND">> \o JoinAnd(Tail(conds))

Condition(item) == <<"d.", item[1], "=", Quote>> \o item[2] \o <<Quote>>

BuildFilterConditions(filters) ==
    IF filters = NoFilter THEN <<"1", "=", "1">>
    ELSE JoinAnd([i \in 1..Len(filters) |-> Condition(filters[i])])

(***************************************************************************)
(* The backend's reading of a WHERE text: a quote opens a string literal   *)
(* that runs to the next quote; AND binds tighter than OR; an atom is      *)
(* <operand> = <operand> or <operand> CONTAINS <operand>.                  *)
(***************************************************************************)
SyntaxError == <<[t |-> "error"]>>

\* The position of the first quote at or after i, or 0.
RECURSIVE NextQuote(_, _)
NextQuote(text, i) ==
    IF i > Len(text) THEN 0
    ELSE IF text[i] = Quote THEN i
    ELSE NextQuote(text, i + 1)

RECURSIVE Lex(_, _)
Lex(text, i) ==
    IF i > Len(text) THEN <<>>
    ELSE IF text[i] = Quote THEN
        LET j == NextQuote(text, i + 1)
        IN IF j = 0 THEN SyntaxError
           ELSE <<[t |-> "lit", v |-> SubSeq(text, i + 1, j - 1)]>> \o Lex(text, j + 1)
    ELSE IF text[i] = "d." THEN
        IF i = Len(text) THEN SyntaxError
        ELSE <<[t |-> "prop", v |-> text[i + 1]]>> \o Lex(text, i + 2)
    ELSE IF text[i] \in {"AND", "OR", "=", "CONTAINS"} THEN
        <<[t |-> "op", v |-> text[i]]>> \o Lex(text, i + 1)
    ELSE IF text[i] = "$query" THEN
        <<[t |-> "param", v |-> text[i]]>> \o Lex(text, i + 1)
    ELSE <<[t |-> "word", v |-> text[i]]>> \o Lex(text, i + 1)

IsOp(tok, o) == tok.t = "op" /\ tok.v = o
IsOperand(tok) == tok.t \in {"lit", "prop", "param", "word"}

\* The pieces of a token sequence between the occurrences of operator o.
RECURSIVE SplitAt(_, _, _)
SplitAt(toks, o, acc) ==
    IF toks = <<>> THEN <<acc>>
    ELSE IF IsOp(Head(toks), o) THEN <<acc>> \o SplitAt(Tail(toks), o, <<>>)
    ELSE SplitAt(Tail(toks), o, Append(acc, Head(toks)))

AtomOk(a) ==
    /\ Len(a) = 3
    /\ IsOperand(a[1]) /\ IsOperand(a[3])
    /\ IsOp(a[2], "=") \/ IsOp(a[2], "CONTAINS")

\* The parse: a sequence (OR) of sequences (AND) of atoms.
Parse(text) ==
    LET toks == Lex(text, 1)
        ors  == SplitAt(toks, "OR", <<>>)
    IN [i \in 1..Len(ors) |-> SplitAt(ors[i], "AND", <<>>)]

WellFormed(text) ==
    LET toks == Lex(text, 1)
        p    == Parse(text)
    IN /\ \A i \in 1..Len(toks) : toks[i].t # "error"
       /\ \A i \in 1..Len(p) : \A j \in 1..Len(p[i]) : AtomOk(p[i][j])

\* The value of an operand on node n with $query = q; <<"null">> is null.
NullValue == <<"null", "null">>
PropValue(n, k) ==
    IF ~HasProp(n, k) THEN NullValue
    ELSE IF k = "id" THEN <<n.id>>
    ELSE IF k \in {"name", "content"} THEN n[k]
    ELSE NullValue

OperandValue(tok, n, q) ==
    CASE tok.t = "lit"   -> tok.v
      [] tok.t = "prop"  -> PropValue(n, tok.v)
      [] tok.t = "param" -> q
      [] OTHER           -> <<"number", tok.v>>

\* x CONTAINS y on texts: y is a contiguous part of x.
Contains(x, y) ==
    \E i \in 0..(Len(x) - Len(y)) : SubSeq(x, i + 1, i + Len(y)) = y

AtomHolds(a, n, q) ==
    LET x == OperandValue(a[1], n, q)
        y == OperandValue(a[3], n, q)
    IN /\ x # NullValue /\ y # NullValue
       /\ IF IsOp(a[2], "=") THEN x = y ELSE Contains(x, y)

\* WHERE keeps a row when the condition is true (not false, not null).
HoldsParsed(p, n, q) ==
    \E i \in 1..Len(p) : \A j \in 1..Len(p[i]) : AtomHolds(p[i][j], n, q)

Holds(text, n, q) == HoldsParsed(Parse(text), n, q)

\* MATCH (d:Document) WHERE <text>: the bag of the nodes kept.
Matching(b, text, q) ==
    LET p == Parse(text)
        S == {n \in BagToSet(b) : HoldsParsed(p, n, q)}
    IN [n \in S |-> b[n]]

(***************************************************************************)
(* The similarity functions gds.similarity.cosine / euclidean / manhattan. *)
(* Each returns a similarity (larger = closer).  They are compared exactly *)
(* on integers: cosine by the signed square of the dot product over the    *)
(* squared norms, the other two by the squared / absolute distance.        *)
(***************************************************************************)
Dot(u, v) == LET RECURSIVE D(_)
                 D(i) == IF i = 0 THEN 0 ELSE u[i] * v[i] + D(i - 1)
             IN D(Len(u))
Abs(x) == IF x < 0 THEN -x ELSE x
Diff(u, v) == [i \in 1..Len(u) |-> u[i] - v[i]]
L1(u) == LET RECURSIVE A(_)
             A(i) == IF i = 0 THEN 0 ELSE Abs(u[i]) + A(i - 1)
         IN A(Len(u))
SignedSquare(x) == IF x < 0 THEN -(x * x) ELSE x * x

\* similarity(u, q) <= similarity(v, q), for non-null u, v of q's length.
SimLeq(dist, q, u, v) ==
    CASE dist = "cosine" ->
           SignedSquare(Dot(u, q)) * Dot(v, v) <= SignedSquare(Dot(v, q)) * Dot(u, u)
      [] dist = "euclidean" ->
           Dot(Diff(u, q), Diff(u, q)) >= Dot(Diff(v, q), Diff(v, q))
      [] OTHER ->
           L1(Diff(u, q)) >= L1(Diff(v, q))

\* similarity(u, q) is the largest value the function takes.
SimIsMax(dist, q, u) ==
    CASE dist = "cosine" ->
           Dot(u, q) > 0 /\ Dot(u, q) * Dot(u, q) = Dot(u, u) * Dot(q, q)
      [] OTHER -> u = q

\* _distance_function: the function named for the configured distance.
DistanceFunction(c) == c.distance

(***************************************************************************)
(* ORDER BY ... LIMIT on a bag of rows: the sequences the backend may      *)
(* return.  before[x, y] says row x may come before row y.                 *)
(***************************************************************************)
SeqCount(s, n) == Cardinality({i \in 1..Len(s) : s[i] = n})
WithinBag(s, b) == \A n \in BagToSet(b) : SeqCount(s, n) <= CopiesIn(n, b)
Left(s, b) == {n \in BagToSet(b) : SeqCount(s, n) < CopiesIn(n, b)}

Selections(b, k, before) ==
    LET m == Min(k, BagCardinality(b))
    IN {s \in [1..m -> BagToSet(b)] :
          /\ WithinBag(s, b)
          /\ \A i, j \in 1..m : i < j => before[s[i], s[j]]
          /\ \A i \in 1..m : \A n \in Left(s, b) : before[s[i], n]}

\* ORDER BY <similarity> (ascending; Cypher sorts null last).
AscendingSimilarity(c, qe, x, y) ==
    \/ y.embedding = NoVec
    \/ x.embedding # NoVec /\ SimLeq(DistanceFunction(c), qe, x.embedding, y.embedding)

DescendingSimilarity(c, qe, x, y) ==
    /\ x.embedding # NoVec /\ y.embedding # NoVec
    /\ SimLeq(DistanceFunction(c), qe, y.embedding, x.embedding)

\* CASE WHEN d.content CONTAINS $query THEN 0 ELSE 1 END
KeywordMatch(n, q) == IF HasProp(n, "content") /\ Contains(n.content, q) THEN 0 ELSE 1

\* ORDER BY keyword_match, vector_distance
HybridBefore(c, q, qe, x, y) ==
    \/ KeywordMatch(x, q) < KeywordMatch(y, q)
    \/ KeywordMatch(x, q) = KeywordMatch(y, q) /\ AscendingSimilarity(c, qe, x, y)

(***************************************************************************)
(* The rows each search query returns: <<error, set of row sequences>>.    *)
(***************************************************************************)
KeywordWhere(filters) ==
    <<"d.", "content", "CONTAINS", "$query", "AND">> \o BuildFilterConditions(filters)

\* gds.index.vector.queryHNSW(index, $query_embedding, {topK, filter}): an
\* approximate index over the nodes that have an embedding; up to topK of the
\* nodes the filter keeps, closest first; it may leave out a true neighbour.
QueryHNSW(c, b, qe, k, filters) ==
    LET text == BuildFilterConditions(filters)
        kept == Matching(b, text, NoText)
        idx  == [n \in {n \in BagToSet(kept) : n.embedding # NoVec} |-> kept[n]]
    IN UNION {{s \in [1..m -> BagToSet(idx)] :
                 /\ WithinBag(s, idx)
                 /\ \A i, j \in 1..m : i < j => DescendingSimilarity(c, qe, s[i], s[j])}
              : m \in 0..Min(k, BagCardinality(idx))}

VectorRows(c, b, hasIndex, q, k, filters) ==
    LET text == BuildFilterConditions(filters)
        qe   == Embed(q)
    IN IF ~WellFormed(text) THEN <<"CypherSyntaxError", {}>>
       ELSE IF c.vector_index = "HNSW" THEN
           IF ~hasIndex THEN <<"ClientError", {}>>
           ELSE <<Null, QueryHNSW(c, b, qe, k, filters)>>
       ELSE LET rows == Matching(b, text, q)
                before == [x, y \in BagToSet(rows) |-> AscendingSimilarity(c, qe, x, y)]
            IN <<Null, Selections(rows, k, before)>>

KeywordRows(b, q, k, filters) ==
    LET text == KeywordWhere(filters)
        rows == Matching(b, text, q)
        before == [x, y \in BagToSet(rows) |-> TRUE]
    IN IF ~WellFormed(text) THEN <<"CypherSyntaxError", {}>>
       ELSE <<Null, Selections(rows, k, before)>>

HybridRows(c, b, q, k, filters) ==
    LET text == BuildFilterConditions(filters)
        qe   == Embed(q)
        rows == Matching(b, text, q)
        before == [x, y \in BagToSet(rows) |-> HybridBefore(c, q, qe, x, y)]
    IN IF ~WellFormed(text) THEN <<"CypherSyntaxError", {}>>
       ELSE <<Null, Selections(rows, k, before)>>

(***************************************************************************)
(* _create_document_from_record and the list each search method builds.    *)
(***************************************************************************)
NoMetadata == <<>>
\* A conversion that would not read the embedding of the record.
ReadableWithoutEmbedding(n) == HasProp(n, "id") /\ HasProp(n, "name")
                               /\ HasProp(n, "content")
RecordReadable(n) == HasProp(n, "id") /\ HasProp(n, "name")
                     /\ HasProp(n, "content") /\ HasProp(n, "embedding")
CreateDocumentFromRecord(n) ==
    [id |-> n.id, name |-> n.name, content |-> n.content,
     embedding |-> n.embedding, metadata |-> NoMetadata]

SearchOutcome(err, q, k, filters, rows, docs) ==
    [op |-> "search", status |-> IF err = Null THEN "ok" ELSE "error", err |-> err,
     ret |-> Null, q |-> q, limit |-> k, filter |-> filters,
     rows |-> rows, docs |-> docs]

\* _vector_search: record['node'] with the keyword score=record['score'].
VectorSearch(c, b, hasIndex, q, k, filters) ==
    IF c.embedder = "None" THEN {SearchOutcome("AttributeError", q, k, filters, NoRows, NoRows)}
    ELSE LET r == VectorRows(c, b, hasIndex, q, k, filters)
         IN IF r[1] # Null THEN {SearchOutcome(r[1], q, k, filters, NoRows, NoRows)}
            ELSE {SearchOutcome(IF rows = NoRows THEN Null
                                ELSE IF c.vector_index = "HNSW" THEN "TypeError"
                                ELSE "KeyError",
                                q, k, filters, rows, NoRows) : rows \in r[2]}

Converted(q, k, filters, rows) ==
    IF \A i \in 1..Len(rows) : RecordReadable(rows[i])
    THEN SearchOutcome(Null, q, k, filters, rows,
                       [i \in 1..Len(rows) |-> CreateDocumentFromRecord(rows[i])])
    ELSE SearchOutcome("KeyError", q, k, filters, rows, NoRows)

KeywordSearch(b, q, k, filters) ==
    LET r == KeywordRows(b, q, k, filters)
    IN IF r[1] # Null THEN {SearchOutcome(r[1], q, k, filters, NoRows, NoRows)}
       ELSE {Converted(q, k, filters, rows) : rows \in r[2]}

HybridSearch(c, b, q, k, filters) ==
    IF c.embedder = "None" THEN {SearchOutcome("ValueError", q, k, filters, NoRows, NoRows)}
    ELSE LET r == HybridRows(c, b, q, k, filters)
         IN IF r[1] # Null THEN {SearchOutcome(r[1], q, k, filters, NoRows, NoRows)}
            ELSE {Converted(q, k, filters, rows) : rows \in r[2]}

SearchResults(c, b, hasIndex, q, k, filters) ==
    CASE c.search_type = "vector"  -> VectorSearch(c, b, hasIndex, q, k, filters)
      [] c.search_type = "keyword" -> KeywordSearch(b, q, k, filters)
      [] OTHER                     -> HybridSearch(c, b, q, k, filters)

(***************************************************************************)
(* Neo4jVectorDb: the write path.                                          *)
(***************************************************************************)
IndexTypes  == {"HNSW", "Neo4jNativeIndex", "Other"}
Distances   == {"cosine", "euclidean", "manhattan"}
SearchTypes == {"vector", "keyword", "hybrid"}

Insert(docs) ==
    LET r == InsertLoop(nodes, constraint, docs, 1)
    IN /\ NodeCount(r[1]) <= MaxNodes
       /\ nodes' = r[1]
       /\ res' = Outcome("insert", r[2])
       /\ UNCHANGED <<cfg, constraint, index>>
       /\ UNCHANGED <<storeVars, raceVars>>

Upsert(docs) ==
    LET b == UpsertLoop(nodes, docs, 1)
    IN /\ NodeCount(b) <= MaxNodes
       /\ nodes' = b
       /\ res' = Outcome("upsert", Null)
       /\ UNCHANGED <<cfg, constraint, index>>
       /\ UNCHANGED <<storeVars, raceVars>>

(***************************************************************************)
(* Neo4jVectorDb: create, drop, delete, search.                            *)
(***************************************************************************)
HasDuplicateIds(b) == \E i \in Ids : CountId(b, i) > 1

\* CREATE CONSTRAINT ON (d:Document) ASSERT d.id IS UNIQUE (no IF NOT EXISTS):
\* the error of the statement, or Null when the constraint is created.
CreateConstraintError(b, uniq) ==
    IF uniq THEN "EquivalentSchemaRuleAlreadyExists"
    ELSE IF HasDuplicateIds(b) THEN "ConstraintCreationFailed"
    ELSE Null

\* create_index: HNSW has no to_dict(); CREATE INDEX ON has no IF NOT EXISTS.
CreateIndexError(c, hasIndex) ==
    CASE c.vector_index = "HNSW"             -> "AttributeError"
      [] c.vector_index = "Neo4jNativeIndex" ->
             IF hasIndex THEN "EquivalentSchemaRuleAlreadyExists" ELSE Null
      [] OTHER                               -> "ValueError"

\* drop_index: the error of the drop statement, or Null.
DropIndexError(c, hasIndex) ==
    CASE c.vector_index \in {"HNSW", "Neo4jNativeIndex"} ->
             IF hasIndex THEN Null ELSE "ClientError"
      [] OTHER -> "ValueError"

Create ==
    LET e1 == CreateConstraintError(nodes, constraint)
        e2 == CreateIndexError(cfg, index)
    IN /\ constraint' = (constraint \/ e1 = Null)
       /\ index' = (index \/ (e1 = Null /\ e2 = Null))
       /\ res' = Outcome("create", IF e1 # Null THEN e1 ELSE e2)
       /\ UNCHANGED <<cfg, nodes>>
       /\ UNCHANGED <<storeVars, raceVars>>

\* drop: the errors of its two statements, <<drop_index, DETACH DELETE>>.
\* The second is sent only after the first succeeded; the backend may fail
\* it (fails), as it may fail any statement.
DropErrors(c, hasIndex, fails) ==
    LET e1 == DropIndexError(c, hasIndex)
    IN <<e1, IF e1 = Null /\ fails THEN "TransientError" ELSE Null>>

FirstError(e) == IF e[1] # Null THEN e[1] ELSE e[2]

\* A drop() that drops the index and leaves the documents.
DropEffectIndexOnly(op, e, ret) ==
       /\ index' = (index /\ e[1] # Null)
       /\ nodes' = nodes
       /\ res' = [Outcome(op, ret[1]) EXCEPT !.ret = ret[2]]
       /\ UNCHANGED <<cfg, constraint>>
       /\ UNCHANGED <<storeVars, raceVars>>

\* drop(): drop_index(), then MATCH (d:Document) DETACH DELETE d, each in
\* its own auto-commit session.
DropEffect(op, e, ret) ==
       /\ index' = (index /\ e[1] # Null)
       /\ nodes' = IF FirstError(e) = Null THEN EmptyBag ELSE nodes
       /\ res' = [Outcome(op, ret[1]) EXCEPT !.ret = ret[2]]
       /\ UNCHANGED <<cfg, constraint>>
       /\ UNCHANGED <<storeVars, raceVars>>

Drop(fails) ==
    LET e == DropErrors(cfg, index, fails)
    IN DropEffect("drop", e, <<FirstError(e), Null>>)

\* delete(): True when drop() returned, False when it raised.
Delete(fails) ==
    LET e == DropErrors(cfg, index, fails)
    IN DropEffect("delete", e, <<Null, IF FirstError(e) = Null THEN "True" ELSE "False">>)

Queries == {<<"thai">>, <<"soup">>}
MaxLimit == 2
Limits == 1..MaxLimit
Injection == <<"n1", Quote, "OR", Quote, "1", Quote, "=", Quote, "1">>
FilterInputs ==
    { NoFilter,
      <<<<"name", <<"n1">>>>>>,
      <<<<"tag", <<"x">>>>>>,
      <<<<"name", <<"n", Quote, "1">>>>>>,
      <<<<"name", Injection>>>> }

Search(q, k, filters) ==
    /\ res' \in SearchResults(cfg, nodes, index, q, k, filters)
    /\ UNCHANGED <<cfg, nodes, constraint, index>>
    /\ UNCHANGED <<storeVars, raceVars>>

(***************************************************************************)
(* Specifications.                                                         *)
(***************************************************************************)
Cfgs == [vector_index : IndexTypes, distance : Distances,
         search_type : SearchTypes, embedder : {"set", "None"}]

StoresIdle ==
    /\ clock = 0
    /\ memories = <<>>
    /\ wsessions = <<>>
    /\ asessions = <<>>
    /\ schema = {}
    /\ sres = <<"init", "ok">>

\* No upsert call of the workflow store is in progress.
NoSession == [session_id |-> "None", user_id |-> "None", created_at |-> NoTime]
IdleCall == [pc |-> "idle", session |-> NoSession, attempts |-> 0, creates |-> 0,
             status |-> "none"]

\* No call is between its statements and no backend session is open.
IdleSessions == [op |-> "none", pc |-> "idle", stage |-> "query", failed |-> FALSE,
                 left |-> 0, attempts |-> 0, open |-> 0]

\* One Neo4jWorkflowStorage as __init__ leaves it: its attributes, and the
\* driver GraphDatabase.driver(...) returned, open.
TableNames == {"Workflow", "Archive"}
NewHandle(table, engine) ==
    [engine |-> engine, table_name |-> table, database |-> "neo4j",
     auto_upgrade_schema |-> FALSE]
OpenDriver == [open |-> TRUE, by |-> 0]
NoCall == [op |-> "init", obj |-> 0, status |-> "ok"]

HandlesIdle ==
    /\ handles = <<NewHandle("Workflow", 1)>>
    /\ drivers = <<OpenDriver>>
    /\ hres = NoCall

RaceIdle ==
    /\ rpc = <<>>
    /\ rstatus = <<>>
    /\ wcall = IdleCall
    /\ scall = IdleSessions
    /\ HandlesIdle

\* The write path: calls with document lists on a fresh backend.
Init ==
    /\ cfg \in {c \in Cfgs : c.distance = "cosine" /\ c.search_type = "vector"
                                /\ c.embedder = "set"}
    /\ nodes = EmptyBag
    /\ constraint = FALSE
    /\ index = FALSE
    /\ res = Outcome("init", Null)
    /\ StoresIdle
    /\ RaceIdle

Next ==
    \/ Create
    \/ \E docs \in Batches : Insert(docs)
    \/ \E docs \in Batches : Upsert(docs)
    \/ \E fails \in BOOLEAN : Drop(fails)
    \/ \E fails \in BOOLEAN : Delete(fails)

Spec == Init /\ [][Next]_vars

\* The read path: single-document writes and searches on a backend whose
\* vector index is already provisioned.  _keyword_search reads neither the
\* distance nor the index variant and _hybrid_search does not read the index
\* variant, so one configuration stands for each such family.
SearchCfgs ==
    {c \in Cfgs :
        /\ c.embedder = "set"
        /\ c.vector_index \in {"HNSW", "Neo4jNativeIndex"}
        /\ c.search_type = "keyword" => c.distance = "cosine"
        /\ c.search_type # "vector" => c.vector_index = "HNSW"}

InitSearch ==
    /\ cfg \in SearchCfgs
    /\ nodes = EmptyBag
    /\ constraint = FALSE
    /\ index = TRUE
    /\ res = Outcome("init", Null)
    /\ StoresIdle
    /\ RaceIdle

NextSearch ==
    \/ \E d \in Documents : Insert(<<d>>)
    \/ \E d \in Documents : Upsert(<<d>>)
    \/ \E q \in Queries, k \in Limits, f \in FilterInputs : Search(q, k, f)
    \/ \E fails \in BOOLEAN : Delete(fails)

SpecSearch == InitSearch /\ [][NextSearch]_vars

\* The arguments search() does not check: a limit of 0 (LIMIT 0 is valid
\* Cypher and returns no rows) and an instance built without embedder.
LimitInputs == 0..MaxLimit
QueryFilters == {NoFilter, <<<<"name", <<"n1">>>>>>}

QueryCfgs ==
    {c \in Cfgs :
        /\ c.distance = "cosine"
        /\ c.vector_index \in {"HNSW", "Neo4jNativeIndex"}
        /\ c.search_type # "vector" => c.vector_index = "HNSW"}

InitQuery ==
    /\ cfg \in QueryCfgs
    /\ nodes = EmptyBag
    /\ constraint = FALSE
    /\ index = TRUE
    /\ res = Outcome("init", Null)
    /\ StoresIdle
    /\ RaceIdle

NextQuery ==
    \/ \E d \in Documents : Insert(<<d>>)
    \/ \E q \in Queries, k \in LimitInputs, f \in QueryFilters : Search(q, k, f)

SpecQuery == InitQuery /\ [][NextQuery]_vars

\* The searches that embed the query, over documents written with and
\* without embedding.
InitEmbedded ==
    /\ cfg \in {c \in QueryCfgs : c.embedder = "set" /\ c.search_type # "keyword"}
    /\ nodes = EmptyBag
    /\ constraint = FALSE
    /\ index = TRUE
    /\ res = Outcome("init", Null)
    /\ StoresIdle
    /\ RaceIdle

NextEmbedded ==
    \/ \E d \in Documents : Insert(<<d>>)
    \/ \E d \in Documents : Upsert(<<d>>)
    \/ \E q \in Queries, k \in Limits : Search(q, k, NoFilter)

SpecEmbedded == InitEmbedded /\ [][NextEmbedded]_vars

\* Documents whose embedding was computed by another embedder: one component
\* more than the vectors of Embed, which the index and the queries use.
Dimension == Len(Embed(<<"thai">>))
Misfit(d) == [d EXCEPT !.embedding = d.embedding \o <<0>>]
MisfitDocuments == {Misfit(Doc(i, c, TRUE)) : i \in Ids, c \in Contents}

InitDims ==
    /\ cfg \in {c \in QueryCfgs : c.embedder = "set" /\ c.search_type = "vector"}
    /\ nodes = EmptyBag
    /\ constraint = FALSE
    /\ index = TRUE
    /\ res = Outcome("init", Null)
    /\ StoresIdle
    /\ RaceIdle

NextDims ==
    \/ \E d \in Documents \cup MisfitDocuments : Insert(<<d>>)
    \/ \E fails \in BOOLEAN : Delete(fails)

SpecDims == InitDims /\ [][NextDims]_vars

(***************************************************************************)
(* The stores that record timestamps.  Each keeps one node per key (its    *)
(* MERGE runs alone here); timestamp() and time.time() read the clock.     *)
(***************************************************************************)
Keys    == {"k1"}
UserIds == {"u1", "u2"}
Bodies  == {"m1", "m2"}
Times   == 0..MaxClock

Tick ==
    /\ clock < MaxClock
    /\ clock' = clock + 1
    /\ UNCHANGED <<memories, wsessions, asessions, schema, sres>>
    /\ UNCHANGED <<vecVars, raceVars>>

Put(f, k, v) == [x \in DOMAIN f \cup {k} |-> IF x = k THEN v ELSE f[x]]
\* A DELETE whose MATCH does not look at the key.
RemoveAll(f, k) == <<>>
Remove(f, k) == [x \in DOMAIN f \ {k} |-> f[x]]

\* Neo4jMemoryDb.upsert_memory:
\*   MERGE (m:Memory {id: $id})
\*   ON CREATE SET m.user_id = $user_id, m.memory = $memory, m.created_at = timestamp()
\*   ON MATCH SET m.memory = $memory, m.updated_at = timestamp()
\* A MERGE whose ON MATCH SET would write user_id as well.
MemoryOverwrite(f, now, id, user, body) ==
    Put(f, id, [user_id |-> user, memory |-> body,
                created_at |-> IF id \in DOMAIN f THEN f[id].created_at ELSE now,
                updated_at |-> IF id \in DOMAIN f THEN now ELSE NoTime])
MemoryMerge(f, now, id, user, body) ==
    IF id \in DOMAIN f
    THEN Put(f, id, [f[id] EXCEPT !.memory = body, !.updated_at = now])
    ELSE Put(f, id, [user_id |-> user, memory |-> body,
                     created_at |-> now, updated_at |-> NoTime])

UpsertMemory(id, user, body) ==
    /\ memories' = MemoryMerge(memories, clock, id, user, body)
    /\ sres' = <<"upsert_memory", "ok", "none", user>>
    /\ UNCHANGED <<clock, wsessions, asessions, schema>>
    /\ UNCHANGED <<vecVars, raceVars>>

\* Neo4jMemoryDb.delete_memory: MATCH (m:Memory {id: $id}) DELETE m
DeleteMemory(id) ==
    /\ memories' = Remove(memories, id)
    /\ sres' = <<"delete_memory", "ok">>
    /\ UNCHANGED <<clock, wsessions, asessions, schema>>
    /\ UNCHANGED <<vecVars, raceVars>>

\* Neo4jWorkflowStorage.upsert.  The session's created_at is a key of
\* model_dump() or not (NoKey); when it is, its value is None (NoTime) or the
\* caller's.  properties.get("created_at", now) takes the default only for a
\* missing key; SET s = $properties replaces every property of the node.
NoKey == -2
WorkflowProperties(session, now) ==
    [user_id |-> session.user_id,
     created_at |-> IF session.created_at = NoKey THEN now ELSE session.created_at,
     updated_at |-> now]

WorkflowSessions ==
    [session_id : Keys, user_id : {"u1"}, created_at : {NoKey, NoTime} \cup Times]

UpsertWorkflow(session) ==
    /\ wsessions' = Put(wsessions, session.session_id,
                        WorkflowProperties(session, clock))
    /\ sres' = <<"workflow.upsert", "ok">>
    /\ UNCHANGED <<clock, memories, asessions, schema>>
    /\ UNCHANGED <<vecVars, raceVars>>

\* Neo4jAgentStorage.upsert:
\*   MERGE (s:Session {session_id: $session_id})
\*   SET s.agent_id = ..., s.user_id = ..., ..., s.updated_at = timestamp()
AgentMergeSet(f, now, id, user, body) ==
    Put(f, id, [user_id |-> user, memory |-> body,
                created_at |-> IF id \in DOMAIN f THEN f[id].created_at ELSE NoTime,
                updated_at |-> now])

UpsertAgent(id, user, body) ==
    /\ asessions' = AgentMergeSet(asessions, clock, id, user, body)
    /\ sres' = <<"agent.upsert", "ok">>
    /\ UNCHANGED <<clock, memories, wsessions, schema>>
    /\ UNCHANGED <<vecVars, raceVars>>

\* create() of Neo4jWorkflowStorage, Neo4jMemoryDb and Neo4jAgentStorage:
\* one CREATE CONSTRAINT IF NOT EXISTS statement, a no-op when it exists.
StoreLabels == {"Workflow", "Memory", "Session"}
CreateIfNotExists(labels, label) == labels \cup {label}

CreateStore(label) ==
    /\ schema' = CreateIfNotExists(schema, label)
    /\ sres' = <<"create", "ok">>
    /\ UNCHANGED <<clock, memories, wsessions, asessions>>
    /\ UNCHANGED <<vecVars, raceVars>>

\* delete_session of Neo4jWorkflowStorage and Neo4jAgentStorage: nothing is
\* sent for session_id None; MATCH ... DELETE s removes the node, if any.
\* Neo4jWorkflowStorage logs the deleted count and returns.
NoId == "None"
DeleteIds == Keys \cup {"k2"}

\* The backend's behaviour during one call: every statement gets its
\* reply, the call's query fails, or every statement fails.
Failures == {"none", "query", "all"}

\* Neo4jWorkflowStorage.delete_session: except Exception logs the error of
\* the statement and the call returns.
DeleteWorkflowSession(id, fails) ==
    /\ wsessions' = IF id = NoId \/ fails # "none" THEN wsessions
                    ELSE Remove(wsessions, id)
    /\ sres' = <<"workflow.delete_session", "ok", IF id = NoId THEN "none" ELSE fails>>
    /\ UNCHANGED <<clock, memories, asessions, schema>>
    /\ UNCHANGED <<vecVars, raceVars>>

DeleteAgentSession(id) ==
    /\ asessions' = IF id = NoId THEN asessions ELSE Remove(asessions, id)
    /\ sres' = <<"agent.delete_session", "ok">>
    /\ UNCHANGED <<clock, memories, wsessions, schema>>
    /\ UNCHANGED <<vecVars, raceVars>>

\* Neo4jWorkflowStorage.drop: MATCH (s) DETACH DELETE s, then
\* DROP CONSTRAINT IF EXISTS.
DropWorkflow ==
    /\ wsessions' = <<>>
    /\ schema' = schema \ {"Workflow"}
    /\ sres' = <<"workflow.drop", "ok">>
    /\ UNCHANGED <<clock, memories, asessions>>
    /\ UNCHANGED <<vecVars, raceVars>>

\* The reads of Neo4jWorkflowStorage.  MATCH (s {session_id: $session_id})
\* WHERE $user_id IS NULL OR s.user_id = $user_id; the lists come
\* ORDER BY s.created_at DESC, where a null created_at sorts first.  A result
\* is given by the session ids of the nodes returned (<<>> for None and for
\* the empty list).  except Exception logs the error, calls create() and
\* falls through to return None / []; an exception of create() leaves the
\* except block.  workflow_id is None in the calls modelled.
Visible(f, user) == {k \in DOMAIN f : user = NoId \/ f[k].user_id = user}

CreatedDesc(f, x, y) ==
    \/ f[x].created_at = NoTime
    \/ f[y].created_at # NoTime /\ f[x].created_at >= f[y].created_at

SessionIdsDesc(f, user) ==
    LET S == Visible(f, user)
    IN {s \in [1..Cardinality(S) -> S] :
          /\ \A i, j \in 1..Cardinality(S) : i # j => s[i] # s[j]
          /\ \A i, j \in 1..Cardinality(S) : i < j => CreatedDesc(f, s[i], s[j])}

\* The outcome of a read whose query returned rets: <<status, result>>.
ReadOutcome(rets, fails) ==
    CASE fails = "none"  -> {<<"ok", r>> : r \in rets}
      [] fails = "query" -> {<<"ok", <<>> >>}
      [] OTHER           -> {<<"error", <<>> >>}

ReadEffect(op, rets, fails) ==
    /\ \E o \in ReadOutcome(rets, fails) : sres' = <<op, o[1], fails, o[2]>>
    /\ schema' = IF fails = "query" THEN CreateIfNotExists(schema, "Workflow")
                 ELSE schema
    /\ UNCHANGED <<clock, memories, wsessions, asessions>>
    /\ UNCHANGED <<vecVars, raceVars>>

ReadWorkflow(id, user, fails) ==
    ReadEffect("workflow.read",
               {IF id \in Visible(wsessions, user) THEN <<id>> ELSE <<>>}, fails)

GetAllSessionIds(user, fails) ==
    ReadEffect("workflow.get_all_session_ids", SessionIdsDesc(wsessions, user), fails)

GetAllSessions(user, fails) ==
    ReadEffect("workflow.get_all_sessions", SessionIdsDesc(wsessions, user), fails)

VecIdle ==
    /\ cfg \in {c \in Cfgs : c.vector_index = "HNSW" /\ c.distance = "cosine"
                                /\ c.search_type = "vector" /\ c.embedder = "set"}
    /\ nodes = EmptyBag
    /\ constraint = FALSE
    /\ index = FALSE
    /\ res = Outcome("init", Null)

InitStores == VecIdle /\ StoresIdle /\ RaceIdle

NextStores ==
    \/ Tick
    \/ \E id \in Keys, user \in UserIds, body \in Bodies : UpsertMemory(id, user, body)
    \/ \E id \in DeleteIds : DeleteMemory(id)
    \/ \E id \in DeleteIds \cup {NoId}, fails \in Failures : DeleteWorkflowSession(id, fails)
    \/ \E id \in DeleteIds \cup {NoId} : DeleteAgentSession(id)
    \/ DropWorkflow
    \/ \E session \in WorkflowSessions : UpsertWorkflow(session)
    \/ \E id \in Keys, body \in Bodies : UpsertAgent(id, "u1", body)
    \/ \E label \in StoreLabels : CreateStore(label)

SpecStores == InitStores /\ [][NextStores]_vars

\* Removal from the stores: upserts and deletes at one instant of the clock.
NextRemove ==
    \/ \E id \in Keys, user \in UserIds, body \in Bodies : UpsertMemory(id, user, body)
    \/ \E id \in DeleteIds : DeleteMemory(id)
    \/ \E session \in WorkflowSessions : UpsertWorkflow(session)
    \/ \E id \in DeleteIds \cup {NoId}, fails \in Failures : DeleteWorkflowSession(id, fails)
    \/ \E id \in Keys, body \in Bodies : UpsertAgent(id, "u1", body)
    \/ \E id \in DeleteIds \cup {NoId} : DeleteAgentSession(id)

SpecRemove == InitStores /\ [][NextRemove]_vars

\* Neo4jMemoryDb.drop_table (and clear, which calls it):
\* MATCH (m:Memory) DETACH DELETE m
DropTable ==
    /\ memories' = <<>>
    /\ sres' = <<"drop_table", "ok">>
    /\ UNCHANGED <<clock, wsessions, asessions, schema>>
    /\ UNCHANGED <<vecVars, raceVars>>

\* The memory store alone: memories of two users written, removed and
\* written again as the clock advances.
NextMemory ==
    \/ Tick
    \/ \E id \in Keys, user \in UserIds, body \in Bodies : UpsertMemory(id, user, body)
    \/ \E id \in DeleteIds : DeleteMemory(id)
    \/ DropTable

SpecMemory == InitStores /\ [][NextMemory]_vars

\* The workflow store read and written on a backend that may fail.
NextReads ==
    \/ Tick
    \/ \E session \in WorkflowSessions : UpsertWorkflow(session)
    \/ \E id \in DeleteIds \cup {NoId}, fails \in Failures : DeleteWorkflowSession(id, fails)
    \/ \E id \in DeleteIds, user \in UserIds \cup {NoId}, fails \in Failures :
          ReadWorkflow(id, user, fails)
    \/ \E user \in UserIds \cup {NoId}, fails \in Failures : GetAllSessionIds(user, fails)
    \/ \E user \in UserIds \cup {NoId}, fails \in Failures : GetAllSessions(user, fails)

SpecReads == InitStores /\ [][NextReads]_vars

\* Delete then query: writes of documents that carry their embedding,
\* searches without a filter in each mode and index variant, and deletes.
DeleteCfgs == {c \in SearchCfgs : c.distance = "cosine"}

InitDelete ==
    /\ cfg \in DeleteCfgs
    /\ nodes = EmptyBag
    /\ constraint = FALSE
    /\ index = TRUE
    /\ res = Outcome("init", Null)
    /\ StoresIdle
    /\ RaceIdle

NextDelete ==
    \/ \E i \in Ids, c \in Contents : Insert(<<Doc(i, c, TRUE)>>)
    \/ \E i \in Ids, c \in Contents : Upsert(<<Doc(i, c, TRUE)>>)
    \/ \E q \in Queries, k \in Limits : Search(q, k, NoFilter)
    \/ \E fails \in BOOLEAN : Delete(fails)

SpecDelete == InitDelete /\ [][NextDelete]_vars

(***************************************************************************)
(* Neo4jWorkflowStorage.upsert, statement by statement.  The try block     *)
(* sends the MERGE ... SET query; the backend may fail it.  The except     *)
(* block calls create() and then returns self.upsert(session): the same    *)
(* query again, and again the same except block, with no count of the      *)
(* attempts made.  An exception of create() leaves the except block and    *)
(* ends the call.  Nothing in this code bounds the depth of the recursion  *)
(* (only the interpreter's stack does, by a RecursionError some thousand   *)
(* statements later), so the call is modelled as the loop the code        *)
(* describes.  attempts and creates count up to MaxAttempts and stay.      *)
(***************************************************************************)
MaxAttempts == 3
CountUp(n) == Min(n + 1, MaxAttempts)

UpsertCall(session) ==
    /\ wcall.pc = "idle"
    /\ wcall' = [pc |-> "query", session |-> session, attempts |-> 0,
                 creates |-> 0, status |-> "running"]
    /\ UNCHANGED <<rpc, rstatus, scall, handleVars>>
    /\ UNCHANGED <<storeVars, vecVars>>

UpsertQuery(fails) ==
    /\ wcall.pc = "query"
    /\ IF fails
       THEN /\ wcall' = [wcall EXCEPT !.pc = "create", !.attempts = CountUp(@)]
            /\ UNCHANGED <<wsessions, sres>>
       ELSE /\ wsessions' = Put(wsessions, wcall.session.session_id,
                                WorkflowProperties(wcall.session, clock))
            /\ wcall' = [wcall EXCEPT !.pc = "idle", !.attempts = CountUp(@),
                                      !.status = "ok"]
            /\ sres' = <<"workflow.upsert", "ok">>
    /\ UNCHANGED <<clock, memories, asessions, schema>>
    /\ UNCHANGED <<rpc, rstatus, scall, vecVars, handleVars>>

UpsertRetryCreate(fails) ==
    /\ wcall.pc = "create"
    /\ IF fails
       THEN /\ wcall' = [wcall EXCEPT !.pc = "idle", !.status = "error"]
            /\ sres' = <<"workflow.upsert", "error">>
            /\ UNCHANGED schema
       ELSE /\ schema' = CreateIfNotExists(schema, "Workflow")
            /\ wcall' = [wcall EXCEPT !.pc = "query", !.creates = CountUp(@)]
            /\ UNCHANGED sres
    /\ UNCHANGED <<clock, memories, wsessions, asessions>>
    /\ UNCHANGED <<rpc, rstatus, scall, vecVars, handleVars>>

UpsertStep ==
    \/ \E fails \in BOOLEAN : UpsertQuery(fails)
    \/ \E fails \in BOOLEAN : UpsertRetryCreate(fails)

InitRetry == VecIdle /\ StoresIdle /\ RaceIdle

NextRetry ==
    \/ Tick
    \/ \E session \in WorkflowSessions : UpsertCall(session)
    \/ UpsertStep

SpecRetry == InitRetry /\ [][NextRetry]_vars

\* The call runs on its caller's thread and every statement it sends gets
\* its reply or its error: a step of the call that can be taken is taken.
SpecRetryLive == SpecRetry /\ WF_vars(UpsertStep)

(***************************************************************************)
(* The backend sessions of a call.  "with driver.session() as s:" opens a  *)
(* session when the block is entered and closes it when the block is left,  *)
(* by its last statement or by an exception.  A call is followed through    *)
(* entering the block, each statement it sends (the backend may fail any)   *)
(* and leaving the block: Neo4jVectorDb.insert sends one CREATE per         *)
(* document in one block; Neo4jMemoryDb._execute_write and _execute_read    *)
(* send one transaction; Neo4jWorkflowStorage.upsert sends its query in a   *)
(* block inside try, and its except block calls create(), which has a block *)
(* of its own, and then upsert again.                                      *)
(***************************************************************************)
SessionOps == {"vector.insert", "memory.write", "memory.read", "workflow.upsert"}
SessionDoc == Doc("a", <<"thai">>, TRUE)
SessionRow == [session_id |-> "k1", user_id |-> "u1", created_at |-> NoKey]

\* The number of open sessions after a block is left (failed: by exception).
StillOpenAfterError(open, failed) == IF failed THEN open ELSE open - 1
Released(open, failed) == open - 1

SessionCall(op, n) ==
    /\ scall.pc = "idle"
    /\ op = "vector.insert" \/ n = 1
    /\ scall' = [op |-> op, pc |-> "enter", stage |-> "query", failed |-> FALSE,
                 left |-> n, attempts |-> 0, open |-> scall.open]
    /\ UNCHANGED <<rpc, rstatus, wcall, handleVars>>
    /\ UNCHANGED <<storeVars, vecVars>>

SessionEnter ==
    /\ scall.pc = "enter"
    /\ scall' = [scall EXCEPT !.pc = "run", !.open = @ + 1]
    /\ UNCHANGED <<rpc, rstatus, wcall, handleVars>>
    /\ UNCHANGED <<storeVars, vecVars>>

\* What the statement of the call does when the backend runs it.
StatementEffect ==
    /\ nodes' = IF scall.op = "vector.insert"
                THEN AddNode(nodes, CypherCreateNode(SessionDoc), 1) ELSE nodes
    /\ NodeCount(nodes') <= MaxNodes
    /\ memories' = IF scall.op = "memory.write"
                   THEN MemoryMerge(memories, clock, "k1", "u1", "m1") ELSE memories
    /\ wsessions' = IF scall.op = "workflow.upsert" /\ scall.stage = "query"
                    THEN Put(wsessions, SessionRow.session_id,
                             WorkflowProperties(SessionRow, clock))
                    ELSE wsessions
    /\ schema' = IF scall.op = "workflow.upsert" /\ scall.stage = "create"
                 THEN CreateIfNotExists(schema, "Workflow") ELSE schema

SessionRun(fails) ==
    /\ scall.pc = "run"
    /\ IF fails
       THEN /\ scall' = [scall EXCEPT !.pc = "exit", !.failed = TRUE]
            /\ UNCHANGED <<nodes, memories, wsessions, schema>>
       ELSE /\ StatementEffect
            /\ scall' = [scall EXCEPT !.left = @ - 1,
                                      !.pc = IF scall.left = 1 THEN "exit" ELSE "run"]
    /\ UNCHANGED <<cfg, constraint, index, res, clock, asessions, sres>>
    /\ UNCHANGED <<rpc, rstatus, wcall, handleVars>>

\* Leaving the block, and where the call goes from there.
SessionExit ==
    /\ scall.pc = "exit"
    /\ LET open == Released(scall.open, scall.failed)
           retry == scall.op = "workflow.upsert"
                       /\ (scall.failed <=> scall.stage = "query")
       IN IF retry
          THEN /\ scall' = [scall EXCEPT
                              !.pc = "enter", !.open = open, !.failed = FALSE, !.left = 1,
                              !.stage = IF scall.stage = "query" THEN "create" ELSE "query",
                              !.attempts = IF scall.stage = "query" THEN CountUp(@) ELSE @]
               /\ UNCHANGED sres
          ELSE /\ scall' = [scall EXCEPT !.pc = "idle", !.open = open]
               /\ sres' = <<scall.op, IF scall.failed THEN "error" ELSE "ok">>
    /\ UNCHANGED <<clock, memories, wsessions, asessions, schema>>
    /\ UNCHANGED <<rpc, rstatus, wcall, handleVars>>
    /\ UNCHANGED vecVars

InitSessions == VecIdle /\ StoresIdle /\ RaceIdle

NextSessions ==
    \/ Tick
    \/ \E op \in SessionOps, n \in 1..MaxBatch : SessionCall(op, n)
    \/ SessionEnter
    \/ \E fails \in BOOLEAN : SessionRun(fails)
    \/ SessionExit

SpecSessions == InitSessions /\ [][NextSessions]_vars

(***************************************************************************)
(* Two callers in create() at once.  Each statement a caller sends is one  *)
(* step of the backend; Neo4jVectorDb.create sends the constraint          *)
(* statement and then, in create_index, the index statement, and an        *)
(* exception ends the call.  rpc is the statement a caller sends next.     *)
(***************************************************************************)
Callers == {"p1", "p2"}
Running == "running"
Starts  == {"create_constraint"} \cup StoreLabels

RaceConstraint(p) ==
    /\ rpc[p] = "create_constraint"
    /\ LET err == CreateConstraintError(nodes, constraint) IN
         IF err = Null
         THEN /\ constraint' = TRUE
              /\ rpc' = [rpc EXCEPT ![p] = "create_index"]
              /\ UNCHANGED rstatus
         ELSE /\ rpc' = [rpc EXCEPT ![p] = "done"]
              /\ rstatus' = [rstatus EXCEPT ![p] = err]
              /\ UNCHANGED constraint
    /\ UNCHANGED <<cfg, nodes, index, res>>
    /\ UNCHANGED storeVars
    /\ UNCHANGED <<wcall, scall, handleVars>>

RaceIndex(p) ==
    /\ rpc[p] = "create_index"
    /\ LET err == CreateIndexError(cfg, index) IN
         /\ index' = (index \/ err = Null)
         /\ rstatus' = [rstatus EXCEPT ![p] = IF err = Null THEN "ok" ELSE err]
    /\ rpc' = [rpc EXCEPT ![p] = "done"]
    /\ UNCHANGED <<cfg, nodes, constraint, res>>
    /\ UNCHANGED storeVars
    /\ UNCHANGED <<wcall, scall, handleVars>>

RaceCreateStore(p) ==
    /\ rpc[p] \in StoreLabels
    /\ schema' = CreateIfNotExists(schema, rpc[p])
    /\ rpc' = [rpc EXCEPT ![p] = "done"]
    /\ rstatus' = [rstatus EXCEPT ![p] = "ok"]
    /\ UNCHANGED <<clock, memories, wsessions, asessions, sres>>
    /\ UNCHANGED vecVars
    /\ UNCHANGED <<wcall, scall, handleVars>>

\* The documents already stored when the callers start: none, or those of
\* one insert call.
StoredBefore == {EmptyBag} \cup {InsertLoop(EmptyBag, FALSE, docs, 1)[1] : docs \in Batches}

InitRace ==
    /\ cfg \in {c \in Cfgs : c.distance = "cosine" /\ c.search_type = "vector"
                                /\ c.embedder = "set"}
    /\ nodes \in StoredBefore
    /\ constraint = FALSE
    /\ index = FALSE
    /\ res = Outcome("init", Null)
    /\ StoresIdle
    /\ \E start \in Starts : rpc = [p \in Callers |-> start]
    /\ rstatus = [p \in Callers |-> Running]
    /\ wcall = IdleCall
    /\ scall = IdleSessions
    /\ HandlesIdle

NextRace ==
    \/ \E p \in Callers : RaceConstraint(p)
    \/ \E p \in Callers : RaceIndex(p)
    \/ \E p \in Callers : RaceCreateStore(p)

SpecRace == InitRace /\ [][NextRace]_vars

(***************************************************************************)
(* Two callers writing the same id at once through one Neo4jVectorDb.  The *)
(* driver gives each call a session of its own and each statement is its   *)
(* own transaction.  A CREATE is one step of the backend.  A MERGE first    *)
(* looks for a node with the id and then writes the nodes found or creates  *)
(* one; only under the uniqueness constraint does the backend lock the id   *)
(* for the whole statement.  rpc[p] holds the call's position and document. *)
(***************************************************************************)
SharedId == "a"
WriterDocs == {Doc(SharedId, c, TRUE) : c \in Contents}
WriterStarts == {"merge", "create"}

Goto(p, pc) == rpc' = [rpc EXCEPT ![p].pc = pc]
Finish(p, err) ==
    /\ Goto(p, "done")
    /\ rstatus' = [rstatus EXCEPT ![p] = IF err = Null THEN "ok" ELSE err]

WriterFrame ==
    /\ UNCHANGED <<cfg, constraint, index, res>>
    /\ UNCHANGED storeVars
    /\ UNCHANGED <<wcall, scall, handleVars>>

\* insert(): CREATE (d:Document {...}).
WriterCreate(p) ==
    /\ rpc[p].pc = "create"
    /\ LET r == InsertLoop(nodes, constraint, <<rpc[p].doc>>, 1)
       IN nodes' = r[1] /\ Finish(p, r[2])
    /\ WriterFrame

\* upsert(): MERGE (d:Document {id: $id}) SET ..., its match.
WriterMerge(p) ==
    /\ rpc[p].pc = "merge"
    /\ IF constraint
       THEN nodes' = CypherMergeSet(nodes, rpc[p].doc) /\ Finish(p, Null)
       ELSE /\ Goto(p, IF CountId(nodes, rpc[p].doc.id) > 0 THEN "merge_set"
                       ELSE "merge_create")
            /\ UNCHANGED <<nodes, rstatus>>
    /\ WriterFrame

\* The MERGE that found no node creates one.
WriterMergeCreate(p) ==
    /\ rpc[p].pc = "merge_create"
    /\ nodes' = AddNode(nodes, CypherCreateNode(rpc[p].doc), 1)
    /\ Finish(p, Null)
    /\ WriterFrame

\* The MERGE that found nodes writes them.
WriterMergeSet(p) ==
    /\ rpc[p].pc = "merge_set"
    /\ nodes' = CypherMergeSet(nodes, rpc[p].doc)
    /\ Finish(p, Null)
    /\ WriterFrame

\* Two upsert calls, or an insert and an upsert, of documents with the same
\* id; create() was called before them or not; the id is stored or not.
InitWriters ==
    /\ cfg \in {c \in Cfgs : c.vector_index = "HNSW" /\ c.distance = "cosine"
                                /\ c.search_type = "vector" /\ c.embedder = "set"}
    /\ nodes \in {EmptyBag} \cup {CypherMergeSet(EmptyBag, d) : d \in WriterDocs}
    /\ constraint \in BOOLEAN
    /\ index = constraint
    /\ res = Outcome("init", Null)
    /\ StoresIdle
    /\ \E start \in WriterStarts, d1, d2 \in WriterDocs :
          rpc = [p \in Callers |-> IF p = "p1" THEN [pc |-> start, doc |-> d1]
                                   ELSE [pc |-> "merge", doc |-> d2]]
    /\ rstatus = [p \in Callers |-> Running]
    /\ wcall = IdleCall
    /\ scall = IdleSessions
    /\ HandlesIdle

NextWriters ==
    \/ \E p \in Callers : WriterCreate(p)
    \/ \E p \in Callers : WriterMerge(p)
    \/ \E p \in Callers : WriterMergeCreate(p)
    \/ \E p \in Callers : WriterMergeSet(p)

SpecWriters == InitWriters /\ [][NextWriters]_vars

(***************************************************************************)
(* Claims about Neo4jVectorDb.                                             *)
(***************************************************************************)

\* C1: after any sequence of create, insert, upsert, delete and drop calls
\* the backend holds at most one Document node per id.
C1_OneNodePerId == \A i \in Ids : CountId(nodes, i) <= 1

\* The last document of a list with the id i.
LastWithId(docs, i) ==
    LET J == {j \in 1..Len(docs) : docs[j].id = i}
    IN docs[CHOOSE j \in J : \A h \in J : h <= j]

\* The stored node n reads back as the document d, field by field.
ReadsBackAs(n, d) ==
    /\ n.content_hash = d.content_hash
    /\ CreateDocumentFromRecord(n) =
         [id |-> d.id, name |-> d.name, content |-> d.content,
          embedding |-> d.embedding, metadata |-> d.metadata]

\* C2: every upsert(D) step leaves a store that a second upsert(D) does not
\* change, and in which the document stored under each id of D is exactly
\* the last document of D with that id (content, content_hash, embedding,
\* metadata).
C2_UpsertIdempotentFullReplace ==
    [][\A docs \in Batches :
          Upsert(docs) =>
            /\ UpsertLoop(nodes', docs, 1) = nodes'
            /\ \A j \in 1..Len(docs) :
                 \A n \in WithId(nodes', docs[j].id) :
                    ReadsBackAs(n, LastWithId(docs, docs[j].id))]_vars

\* C3: an upsert of one document whose id is stored with another content
\* sets content_hash to the hash of the new content, refreshes updated_at,
\* leaves created_at as it was, and afterwards no keyword search for the old
\* content returns a document with that id.
C3_UpsertOverwrite ==
    [][\A d \in Documents :
          \A old \in WithId(nodes, d.id) :
             (Upsert(<<d>>) /\ old.content # d.content) =>
                /\ \A n \in WithId(nodes', d.id) :
                      /\ n.content_hash = Hash(d.content)
                      /\ HasProp(n, "updated_at")
                      /\ HasProp(n, "created_at") = HasProp(old, "created_at")
                /\ \A k \in Limits :
                      \A o \in KeywordSearch(nodes', old.content, k, NoFilter) :
                         \A i \in 1..Len(o.rows) : o.rows[i].id # d.id]_vars

\* C5: a create() that directly follows a create() that returned normally
\* returns normally too and changes neither the constraint nor the index.
C5_CreateTwiceNoError ==
    [][(res.op = "create" /\ res.status = "ok" /\ Create) =>
          (res'.status = "ok" /\ UNCHANGED <<constraint, index>>)]_vars

\* C4: in the memory store, the workflow store and the agent store, every
\* record has a created_at, which a later step on the record leaves as it was
\* set at creation, and an updated_at that is never before created_at.
TimestampsKept(f, g) ==
    \A k \in DOMAIN g :
        /\ g[k].created_at # NoTime
        /\ k \in DOMAIN f => g[k].created_at = f[k].created_at
        /\ g[k].updated_at # NoTime => g[k].updated_at >= g[k].created_at

C4_TimestampsOnUpsert ==
    [][/\ TimestampsKept(memories, memories')
       /\ TimestampsKept(wsessions, wsessions')
       /\ TimestampsKept(asessions, asessions')]_vars

\* C6: when two callers have run create() at once on a backend that had no
\* constraint and no index (with a supported index type configured and no
\* two stored documents sharing an id), both calls have returned without an
\* error and the structure exists.
RaceOver == DOMAIN rpc = Callers /\ \A p \in Callers : rpc[p] = "done"

C6_ConcurrentCreate ==
    (RaceOver /\ cfg.vector_index # "Other" /\ ~HasDuplicateIds(nodes)) =>
        /\ \A p \in Callers : rstatus[p] = "ok"
        /\ (constraint /\ index) \/ schema # {}

\* C7: a vector search for the content of a stored document that carries the
\* embedding of that content returns normally, and the first document
\* returned has that content and the maximum similarity (a search in which
\* the approximate index returned no neighbour at all is left aside).
C7_RoundTrip ==
    (/\ res.op = "search" /\ cfg.search_type = "vector"
     /\ res.filter = NoFilter
     /\ cfg.vector_index = "HNSW" => res.rows # NoRows
     /\ \E n \in BagToSet(nodes) : n.content = res.q /\ n.embedding = Embed(res.q))
    => /\ res.status = "ok"
       /\ Len(res.docs) >= 1
       /\ res.docs[1].content = res.q
       /\ SimIsMax(cfg.distance, Embed(res.q), res.docs[1].embedding)

\* C8: the documents a vector-mode search fetches come in descending
\* similarity to the query embedding: an earlier one is at least as similar
\* as a later one.
C8_VectorOrderDescending ==
    (res.op = "search" /\ cfg.search_type = "vector") =>
       \A i, j \in 1..Len(res.rows) :
          (i < j /\ res.rows[i].embedding # NoVec /\ res.rows[j].embedding # NoVec)
          => SimLeq(cfg.distance, Embed(res.q),
                    res.rows[j].embedding, res.rows[i].embedding)

\* The value of field k of a returned document.
DocField(d, k) ==
    IF k \in {"name", "content"} THEN d[k]
    ELSE IF k = "id" THEN <<d.id>>
    ELSE IF d.metadata # NoMetadata /\ k \in DOMAIN d.metadata THEN <<d.metadata[k]>>
    ELSE NullValue

\* C9: in every search mode every returned document satisfies every
\* field = value pair of the filter.
C9_FilterScoping ==
    res.op = "search" =>
       \A i \in 1..Len(res.docs) : \A j \in 1..Len(res.filter) :
          DocField(res.docs[i], res.filter[j][1]) = res.filter[j][2]

\* C10: the WHERE text compiled from a filter {k: v} reads as one
\* conjunction with one atom per item, the atom d.k = <the literal v>, so
\* that the nodes it keeps are those whose property k equals v.
C10_FilterValueIsData ==
    (res.op = "search" /\ res.filter # NoFilter) =>
       LET text == BuildFilterConditions(res.filter)
           p    == Parse(text)
       IN /\ WellFormed(text)
          /\ Len(p) = 1 /\ Len(p[1]) = Len(res.filter)
          /\ \A j \in 1..Len(res.filter) :
                /\ p[1][j][1] = [t |-> "prop", v |-> res.filter[j][1]]
                /\ p[1][j][3] = [t |-> "lit", v |-> res.filter[j][2]]
          /\ \A n \in BagToSet(nodes) :
                Holds(text, n, res.q) <=>
                   \A j \in 1..Len(res.filter) :
                      PropValue(n, res.filter[j][1]) = res.filter[j][2]

(***************************************************************************)
(* Claims about hybrid search.  The two channels of a hybrid query with    *)
(* limit k over the stored nodes: the vector channel lists up to k nodes   *)
(* that have an embedding, most similar first; the keyword channel lists   *)
(* up to k nodes whose content contains the query.  A node's rank in a     *)
(* channel is its first position there, 0 when it is absent.               *)
(***************************************************************************)
WithEmbedding(b) == [n \in {x \in BagToSet(b) : x.embedding # NoVec} |-> b[n]]
KeywordMatches(b, q) == [n \in {x \in BagToSet(b) : KeywordMatch(x, q) = 0} |-> b[n]]

VectorChannel(b, q, k) ==
    LET idx == WithEmbedding(b)
    IN Selections(idx, k,
          [x, y \in BagToSet(idx) |-> DescendingSimilarity(cfg, Embed(q), x, y)])

KeywordChannel(b, q, k) ==
    LET m == KeywordMatches(b, q)
    IN Selections(m, k, [x, y \in BagToSet(m) |-> TRUE])

Rank(s, n) ==
    IF \E i \in 1..Len(s) : s[i] = n
    THEN CHOOSE i \in 1..Len(s) : s[i] = n /\ \A j \in 1..(i - 1) : s[j] # n
    ELSE 0

\* 1/(rank + c) with c = 60 as a fraction <<numerator, denominator>>; an
\* absent document contributes 0.
RankTerm(r) == IF r = 0 THEN <<0, 1>> ELSE <<1, r + 60>>
FusionScore(vr, kr, n) ==
    LET x == RankTerm(Rank(vr, n))
        y == RankTerm(Rank(kr, n))
    IN <<x[1] * y[2] + y[1] * x[2], x[2] * y[2]>>
ScoreLeq(x, y) == x[1] * y[2] <= y[1] * x[2]

HybridAnswered ==
    /\ res.op = "search" /\ cfg.search_type = "hybrid"
    /\ res.status = "ok" /\ res.filter = NoFilter

\* C11: the rows of a hybrid search come in descending reciprocal-rank-
\* fusion score for some ranking of the two channels, and no stored node
\* left out has a higher score than a node returned.
C11_HybridFusionOrder ==
    HybridAnswered =>
       \E vr \in VectorChannel(nodes, res.q, res.limit),
          kr \in KeywordChannel(nodes, res.q, res.limit) :
          /\ \A i, j \in 1..Len(res.rows) :
                i < j => ScoreLeq(FusionScore(vr, kr, res.rows[j]),
                                  FusionScore(vr, kr, res.rows[i]))
          /\ \A i \in 1..Len(res.rows) : \A n \in Left(res.rows, nodes) :
                ScoreLeq(FusionScore(vr, kr, n), FusionScore(vr, kr, res.rows[i]))

\* C12: every row of a hybrid search with limit k is among the k nearest
\* nodes of the vector channel or is a keyword match.
C12_HybridOnlyFromChannels ==
    HybridAnswered =>
       \A i \in 1..Len(res.rows) :
          \/ KeywordMatch(res.rows[i], res.q) = 0
          \/ \E vr \in VectorChannel(nodes, res.q, res.limit) :
                Rank(vr, res.rows[i]) # 0

(***************************************************************************)
(* Claims about what a search may return.                                  *)
(***************************************************************************)
Stored(d) == \E n \in BagToSet(nodes) : RecordReadable(n) /\ CreateDocumentFromRecord(n) = d

\* C13: a search with limit k that returns normally returns at most k
\* documents, no document twice, and only documents stored at that time.
C13_SearchBounded ==
    (res.op = "search" /\ res.status = "ok") =>
       /\ Len(res.docs) <= res.limit
       /\ \A i, j \in 1..Len(res.docs) : i < j => res.docs[i] # res.docs[j]
       /\ \A i \in 1..Len(res.docs) : Stored(res.docs[i])

\* C14: a delete() that returned True has left no document stored, and a
\* search in any mode returns only documents stored at the time of the
\* query: a document stored before the delete is returned again only after
\* it has been written again.
C14_DeleteThenQuery ==
    /\ (res.op = "delete" /\ res.ret = "True") => nodes = EmptyBag
    /\ (res.op = "search" /\ res.status = "ok") =>
           \A i \in 1..Len(res.docs) : Stored(res.docs[i])

\* C14 witness: a search that ran after a successful delete (the index the
\* delete dropped is gone) on the emptied store and returned nothing.
C14_Witness ==
    /\ res.op = "search" /\ res.status = "ok" /\ res.docs = NoRows
    /\ ~index /\ nodes = EmptyBag

(***************************************************************************)
(* Claims about drop and remove.                                           *)
(***************************************************************************)
\* C15: a drop() of Neo4jVectorDb (with a supported index type) returns
\* without an error and leaves no document and no index, whether or not
\* the index existed before: also when it is the second drop in a row or the
\* store was never created.
C15_DropIdempotent ==
    (res.op = "drop" /\ cfg.vector_index # "Other") =>
       /\ res.status = "ok"
       /\ nodes = EmptyBag
       /\ ~index

\* C16: delete_memory / delete_session with an id that is not stored
\* returns normally and leaves every stored record as it was.
C16_RemoveAbsentIsNoOp ==
    [][\A id \in DeleteIds \cup {NoId} :
          (\/ DeleteMemory(id) /\ id \notin DOMAIN memories
           \/ \E fails \in Failures :
                 DeleteWorkflowSession(id, fails) /\ id \notin DOMAIN wsessions
           \/ DeleteAgentSession(id) /\ id \notin DOMAIN asessions)
          => /\ sres'[2] = "ok"
             /\ memories' = memories
             /\ wsessions' = wsessions
             /\ asessions' = asessions]_vars

\* C16 witness: a delete_session has returned and the workflow session k1
\* is stored, so the id deleted was not a stored one; a memory is stored too.
C16_Witness ==
    /\ sres[1] = "workflow.delete_session"
    /\ "k1" \in DOMAIN wsessions
    /\ "k1" \in DOMAIN memories

(***************************************************************************)
(* Claims about partial failure.                                           *)
(***************************************************************************)
\* C17: an insert or upsert call that ends with an error leaves the stored
\* documents as they were before the call.
C17_BatchAllOrNothing ==
    [][(res'.op \in {"insert", "upsert"} /\ res'.status = "error")
          => nodes' = nodes]_vars

\* C18: a drop() or delete() that removed the index has also removed the
\* documents, and one that removed documents has also removed the index.
C18_DropNotHalfApplied ==
    [][res'.op \in {"drop", "delete"} =>
          /\ (index /\ ~index') => nodes' = EmptyBag
          /\ (nodes # EmptyBag /\ nodes' = EmptyBag) => ~index']_vars

(***************************************************************************)
(* Claims about the retry of Neo4jWorkflowStorage.upsert.                  *)
(***************************************************************************)
\* C19: one call of upsert makes at most two attempts and at most one
\* create(), and after a second failed attempt it does not go on to another
\* create() and retry.
C19_RetryExactlyOnce ==
    /\ wcall.attempts <= 2
    /\ wcall.creates <= 1
    /\ wcall.pc = "create" => wcall.attempts = 1

MaxHandles == 3
Objects == 1..Len(handles)

\* The _engine of a copy: a deep copy would be a driver of its own.
DeepCopiedEngine(engine, fresh) == fresh
CopiedEngine(engine, fresh) == engine

HandleFrame ==
    /\ UNCHANGED <<vecVars, storeVars>>
    /\ UNCHANGED <<rpc, rstatus, wcall, scall>>

Construct(table) ==
    /\ Len(handles) < MaxHandles
    /\ handles' = Append(handles, NewHandle(table, Len(drivers) + 1))
    /\ drivers' = Append(drivers, OpenDriver)
    /\ hres' = [op |-> "__init__", obj |-> Len(handles) + 1, status |-> "ok"]
    /\ HandleFrame

Deepcopy(o) ==
    /\ o \in Objects
    /\ Len(handles) < MaxHandles
    /\ LET engine == CopiedEngine(handles[o].engine, Len(drivers) + 1)
       IN /\ handles' = Append(handles, [handles[o] EXCEPT !.engine = engine])
          /\ drivers' = IF engine > Len(drivers) THEN Append(drivers, OpenDriver)
                        ELSE drivers
    /\ hres' = [op |-> "__deepcopy__", obj |-> o, status |-> "ok"]
    /\ HandleFrame

\* close(): self._engine.close(); closing a closed driver does nothing.
CloseHandle(o) ==
    /\ o \in Objects
    /\ drivers' = [drivers EXCEPT ![handles[o].engine] =
                      IF @.open THEN [open |-> FALSE, by |-> o] ELSE @]
    /\ hres' = [op |-> "close", obj |-> o, status |-> "ok"]
    /\ UNCHANGED handles
    /\ HandleFrame

\* with self._engine.session(database=self.database) as session: ...
OpenSession(o) ==
    /\ o \in Objects
    /\ hres' = [op |-> "session", obj |-> o,
                status |-> IF drivers[handles[o].engine].open THEN "ok"
                           ELSE "driver closed"]
    /\ UNCHANGED <<handles, drivers>>
    /\ HandleFrame

InitHandles == VecIdle /\ StoresIdle /\ RaceIdle

NextHandles ==
    \/ \E table \in TableNames : Construct(table)
    \/ \E o \in 1..MaxHandles : Deepcopy(o)
    \/ \E o \in 1..MaxHandles : CloseHandle(o)
    \/ \E o \in 1..MaxHandles : OpenSession(o)

SpecHandles == InitHandles /\ [][NextHandles]_vars

(***************************************************************************)
(* Neo4jTools: the functions an agent may call, on the backend that holds  *)
(* the Document nodes.  A statement is given by what it does: MATCH and     *)
(* CALL read, CREATE adds a node, DELETE removes every node, EXPLAIN plans  *)
(* a statement without running it.                                         *)
(***************************************************************************)
Statements == {"MATCH", "CREATE", "DELETE"}
Writes(st) == st \in {"CREATE", "DELETE"}

\* A label argument; the second closes the node pattern and carries a
\* DETACH DELETE clause, so that f"MATCH (n:{label}) ..." is a DELETE.
Labels == {"Document", "Document) DETACH DELETE n //"}
LabelStatement(label) == IF label = "Document" THEN "MATCH" ELSE "DELETE"

\* What a statement does to the graph when the transaction lets it write.
Applied(b, st) ==
    CASE st = "CREATE" -> AddNode(b, CypherCreateNode(Doc("a", <<"soup">>, FALSE)), 1)
      [] st = "DELETE" -> EmptyBag
      [] OTHER         -> b

\* A transaction opened in write mode: <<graph, error>>.
ExecuteInWriteMode(b, st) == <<Applied(b, st), Null>>

\* _execute_read: session.read_transaction(_transaction_execute, query).
\* The backend refuses a statement that writes in a read transaction.
ExecuteRead(b, st) ==
    IF Writes(st) THEN <<b, "ClientError">> ELSE <<b, Null>>

ToolOutcome(op, st, err, ret) ==
    [Outcome(op, err) EXCEPT !.q = <<st>>, !.ret = ret]

ToolEffect(op, st, r, catches) ==
    /\ NodeCount(r[1]) <= MaxNodes
    /\ nodes' = r[1]
    /\ res' = IF catches /\ r[2] # Null THEN ToolOutcome(op, st, Null, r[2])
              ELSE ToolOutcome(op, st, r[2], Null)
    /\ UNCHANGED <<cfg, constraint, index>>
    /\ UNCHANGED <<storeVars, raceVars>>

ShowNodes == ToolEffect("show_nodes", "CALL", ExecuteRead(nodes, "CALL"), FALSE)

DescribeNode(label) ==
    ToolEffect("describe_node", LabelStatement(label),
               ExecuteRead(nodes, LabelStatement(label)), FALSE)

SummarizeNode(label) ==
    ToolEffect("summarize_node", LabelStatement(label),
               ExecuteRead(nodes, LabelStatement(label)), FALSE)

\* EXPLAIN {query}
InspectQuery(st) ==
    ToolEffect("inspect_query", st, ExecuteRead(nodes, "EXPLAIN"), FALSE)

\* try ... except Exception as e: return str(e)
RunQuery(st) == ToolEffect("run_query", st, ExecuteRead(nodes, st), TRUE)

\* The file it writes is not part of the graph.
ExportNodeToPath(label) ==
    ToolEffect("export_node_to_path", LabelStatement(label),
               ExecuteRead(nodes, LabelStatement(label)), FALSE)

ToolOps == {"show_nodes", "describe_node", "summarize_node", "inspect_query",
            "run_query", "export_node_to_path"}

InitTools ==
    /\ cfg \in {c \in QueryCfgs : c.embedder = "set" /\ c.search_type = "vector"
                                    /\ c.vector_index = "HNSW"}
    /\ nodes = EmptyBag
    /\ constraint = FALSE
    /\ index = FALSE
    /\ res = Outcome("init", Null)
    /\ StoresIdle
    /\ RaceIdle

NextTools ==
    \/ \E d \in Documents : Insert(<<d>>)
    \/ ShowNodes
    \/ \E label \in Labels : DescribeNode(label)
    \/ \E label \in Labels : SummarizeNode(label)
    \/ \E st \in Statements : InspectQuery(st)
    \/ \E st \in Statements : RunQuery(st)
    \/ \E label \in Labels : ExportNodeToPath(label)

SpecTools == InitTools /\ [][NextTools]_vars

(***************************************************************************)
(* Claims about errors.                                                    *)
(***************************************************************************)
\* C21: a read or a delete_session of the workflow store during which the
\* backend failed a statement ends with an error for the caller.
C21_ErrorsNotSwallowed ==
    (Len(sres) >= 3 /\ sres[3] # "none") => sres[2] = "error"

\* C22: a create() or drop() that raises the error of an unsupported index
\* type has sent no statement: constraint, index and documents are as they
\* were before the call.
C22_ValidationBeforeBackend ==
    [][(res'.op \in {"create", "drop"} /\ res'.err = "ValueError")
          => (constraint' = constraint /\ index' = index /\ nodes' = nodes)]_vars

\* No stored document passes the filter of the last search.
NothingMatches ==
    Matching(nodes, BuildFilterConditions(res.filter), res.q) = EmptyBag

\* C23: in every mode whose query carries LIMIT $limit (the instance has an
\* embedder) a search with limit <= 0 ends with InvalidArgumentError, and a
\* search with limit > 0 for which no stored document passes the filter
\* returns the empty list without error.
C23_LimitValidated ==
    (/\ res.op = "search" /\ cfg.embedder = "set"
     /\ cfg.search_type = "vector" => cfg.vector_index # "HNSW") =>
        /\ res.limit <= 0 => res.err = "InvalidArgumentError"
        /\ (res.limit > 0 /\ NothingMatches)
              => (res.status = "ok" /\ res.docs = NoRows)

\* C24: without embedder a vector search and a hybrid search end with the
\* same error, EmbeddingUnavailableError, and send no query.
C24_EmbedderRequired ==
    (res.op = "search" /\ cfg.embedder = "None" /\ cfg.search_type \in {"vector", "hybrid"})
        => (res.err = "EmbeddingUnavailableError" /\ res.rows = NoRows)

\* C25: an insert of a document whose embedding has another length than the
\* vectors of the index ends with DimensionMismatchError and leaves the
\* stored documents and the index as they were.
C25_DimensionChecked ==
    [][\A d \in MisfitDocuments :
          (Len(d.embedding) # Dimension /\ Insert(<<d>>))
             => (res'.err = "DimensionMismatchError" /\ nodes' = nodes /\ index' = index)]_vars

\* The stored nodes a keyword search for q under the filter f is to find:
\* the content contains q and every field of f has its value.
KeywordHit(n, q, f) ==
    /\ Contains(n.content, q)
    /\ \A j \in 1..Len(f) : PropValue(n, f[j][1]) = f[j][2]

\* C26: a keyword search, with or without embedder, returns normally; each
\* document returned contains the query text and satisfies the filter; and
\* a stored document that does so is left out only when limit documents
\* are returned.
C26_KeywordSearch ==
    (res.op = "search" /\ cfg.search_type = "keyword") =>
       /\ res.status = "ok"
       /\ \A i \in 1..Len(res.docs) :
             /\ Contains(res.docs[i].content, res.q)
             /\ \A j \in 1..Len(res.filter) :
                   DocField(res.docs[i], res.filter[j][1]) = res.filter[j][2]
       /\ \A n \in BagToSet(nodes) :
             (KeywordHit(n, res.q, res.filter)
                /\ SeqCount(res.rows, n) < CopiesIn(n, nodes))
             => Len(res.docs) = res.limit

\* C27: a vector or hybrid search returns no document that is stored
\* without embedding: every document returned carries an embedding, and is
\* not the document of a stored node that has none.
C27_NoEmbeddingNotReturned ==
    (res.op = "search" /\ cfg.search_type \in {"vector", "hybrid"}) =>
       \A i \in 1..Len(res.docs) :
          /\ res.docs[i].embedding # NoVec
          /\ \A n \in BagToSet(nodes) :
                ~HasProp(n, "embedding") =>
                   res.docs[i] # [CreateDocumentFromRecord(n) EXCEPT !.embedding = NoVec]

\* C27 witness: a hybrid search that returned a document while a document
\* without embedding was stored.
C27_Witness ==
    /\ res.op = "search" /\ cfg.search_type = "hybrid" /\ res.status = "ok"
    /\ Len(res.docs) >= 1
    /\ \E n \in BagToSet(nodes) : ~HasProp(n, "embedding")

\* C28: a call of any function of Neo4jTools leaves the graph as it was:
\* the nodes, the constraint and the index are unchanged, whatever the
\* query or label it was given.
C28_ToolsReadOnly ==
    [][res'.op \in ToolOps
          => (nodes' = nodes /\ constraint' = constraint /\ index' = index)]_vars

\* C28 witness: run_query was given a statement that deletes, on a graph
\* that holds nodes, and returned the text of the backend's refusal.
C28_Witness ==
    /\ res.op = "run_query" /\ res.q = <<"DELETE">> /\ res.ret = "ClientError"
    /\ nodes # EmptyBag

\* C29: no call holds two backend sessions at once, a call that enters a
\* session block (the first, that of create() after a failed attempt, that
\* of the retry) holds none, and when no call is in progress no session is
\* open.
C29_SessionsReleased ==
    /\ scall.open \in {0, 1}
    /\ scall.pc \in {"idle", "enter"} => scall.open = 0
    /\ scall.pc \in {"run", "exit"} => scall.open = 1

\* C29 witness: the retry of a workflow upsert, after a failed attempt and
\* the create() that followed, holds its own session and no other.
C29_Witness ==
    /\ scall.op = "workflow.upsert" /\ scall.stage = "query" /\ scall.pc = "run"
    /\ scall.attempts >= 1 /\ scall.open = 1

\* C30: when two callers that wrote the same id at once (two upserts, or an
\* insert and an upsert), with or without the constraint of create(), have
\* both returned, exactly one document with that id is stored.
C30_ConcurrentWritersOneNode ==
    (\A p \in Callers : rpc[p].pc = "done") => CountId(nodes, SharedId) = 1

(***************************************************************************)
(* Claims about Neo4jMemoryDb and about copies of a store.                 *)
(***************************************************************************)
\* C31: the user_id of a stored memory is that of the upsert that created
\* it: no step changes the user_id (or the created_at) of an id that stays
\* stored, and an upsert_memory on a stored id changes only memory and
\* updated_at, whatever user_id it passes.
C31_UserIdFixedAtCreation ==
    [][/\ \A id \in DOMAIN memories \cap DOMAIN memories' :
             /\ memories'[id].user_id = memories[id].user_id
             /\ memories'[id].created_at = memories[id].created_at
       /\ \A id \in Keys, user \in UserIds, body \in Bodies :
             (UpsertMemory(id, user, body) /\ id \in DOMAIN memories)
                => memories' = Put(memories, id,
                                   [memories[id] EXCEPT !.memory = body,
                                                        !.updated_at = clock])]_vars

\* C31 witness: the last upsert_memory passed user u2 for the id k1, which
\* was stored by u1 and has been updated since; it is still u1's.
C31_Witness ==
    /\ sres[1] = "upsert_memory" /\ sres[4] = "u2"
    /\ "k1" \in DOMAIN memories
    /\ memories["k1"].user_id = "u1"
    /\ memories["k1"].updated_at # NoTime

\* The attributes of an object other than its driver.
OtherAttributes(h) == [h EXCEPT !.engine = 0]

\* C32: a deep copy holds the driver of the object copied and equal copies
\* of its other attributes; close() on an object closes the driver of every
\* object that shares it; and an operation on an object whose driver was
\* closed runs on the closed driver.
C32_DeepcopySharesDriver ==
    [][\A o \in Objects :
          /\ Deepcopy(o) =>
                /\ handles'[Len(handles')].engine = handles[o].engine
                /\ OtherAttributes(handles'[Len(handles')]) = OtherAttributes(handles[o])
                /\ drivers' = drivers
          /\ CloseHandle(o) =>
                \A o2 \in Objects :
                   handles[o2].engine = handles[o].engine
                      => ~drivers'[handles'[o2].engine].open
          /\ (OpenSession(o) /\ ~drivers[handles[o].engine].open)
                => hres'.status = "driver closed"]_vars

\* C32 witness: an operation on one object found its driver closed, and
\* the close() that closed it was called on another object.
C32_Witness ==
    /\ hres.op = "session" /\ hres.status = "driver closed"
    /\ drivers[handles[hres.obj].engine].by # hres.obj

====
